---- MODULE Spec2Model ----
(***************************************************************************)
(* Model of dashboard.py: the two cached CSV loaders, the strategy         *)
(* resolver and the render pass main() of the CRM analytics dashboard.     *)
(*                                                                         *)
(* Numbers are integers (exact arithmetic); quantile breakpoints are kept  *)
(* multiplied by QScale so that the linear interpolation of                *)
(* Series.quantile stays in the integers.  A CSV cell is a record          *)
(* [kind, val] with kind "num", "empty" or "text"; a missing value (NaN)   *)
(* is the record NaN.  The columns monetary and frequency are coerced by   *)
(* the loader but read by nothing that is modelled here, and are left out. *)
(***************************************************************************)
EXTENDS Integers, Sequences, FiniteSets, TLC

VARIABLES
    dataFile,       \* final_cltv_segmentation.csv: [exists, rows]
    stratFile,      \* final_ai_powered_crm_analysis.csv: [exists, columns, rows]
    dataCache,      \* st.cache_data entry of load_and_process_data
    stratCache,     \* st.cache_data entry of load_ai_strategies
    dataReads,      \* number of pd.read_csv calls on the data file
    stratReads,     \* number of pd.read_csv calls on the strategy file
    loadRet,        \* outcome of the latest load_and_process_data call
    stratRet,       \* outcome of the latest load_ai_strategies call
    resolved,       \* latest get_rfm_segment_strategy call: arguments and result
    widgets,        \* sidebar widget state: grade multiselect, segment selectbox
    session,        \* st.session_state: selected_strat_segment or Unset
    view            \* what the latest render pass of main() did and showed

vars == <<dataFile, stratFile, dataCache, stratCache, dataReads, stratReads,
          loadRet, stratRet, resolved, widgets, session, view>>

(***************************************************************************)
(* Bounds of the model.                                                    *)
(***************************************************************************)
MaxRows == 5            \* rows of a data file whose cltv column varies
MaxCltv == 4            \* cltv cells are 1..MaxCltv, empty or text
MaxProfitRows == 2      \* rows of a data file whose profit columns vary
MaxStratRows == 3       \* rows of a strategy file
MaxReads == 2           \* cap on the read counters
MaxAppRows == 2         \* rows of a data file rendered by main()
MaxAppCltv == 2         \* cltv cells of such a file are 1..MaxAppCltv

(***************************************************************************)
(* Cells and missing values.                                               *)
(***************************************************************************)
\* a file that does not exist (pd.read_csv raises FileNotFoundError)
AbsentData == [exists |-> FALSE, rows |-> <<>>]
DataFileOf(rows) == [exists |-> TRUE, rows |-> rows]
NumCell(v) == [kind |-> "num", val |-> v]
EmptyCell == [kind |-> "empty", val |-> 0]
TextCell == [kind |-> "text", val |-> 0]
NaN == [kind |-> "nan", val |-> 0]

Range(s) == {s[i] : i \in DOMAIN s}

\* pd.read_csv: an empty cell is read as NaN, anything else is kept
read_cell(c) == IF c.kind = "empty" THEN NaN ELSE c

\* pd.to_numeric(errors='coerce'): a number stays, everything else becomes NaN
to_numeric(c) == IF c.kind = "num" THEN c ELSE NaN

isna(c) == c.kind = "nan"

\* elementwise product of two numeric columns: NaN propagates
Mul(a, b) == IF isna(a) \/ isna(b) THEN NaN ELSE NumCell(a.val * b.val)

(***************************************************************************)
(* pd.qcut(df['cltv'], q=[0, 0.4, 0.7, 0.9, 1.0], labels=..., duplicates=  *)
(* 'drop').                                                                *)
(***************************************************************************)
QScale == 10
\* q = [0, 0.4, 0.7, 0.9, 1.0], in units of 1/QScale
Quantiles == <<0, 4, 7, 9, 10>>
\* a faulty GradeLabels: the labels listed best grade first
GradeLabelsBestFirst == <<"A (Champions)", "B (High Potential)", "C (Re-Engagement)", "D (At Risk)">>
GradeLabels == <<"D (At Risk)", "C (Re-Engagement)", "B (High Potential)", "A (Champions)">>
\* str() of a missing category
NanGrade == "nan"

\* the values of xs in ascending order
SortedVals(xs) ==
    [k \in 1..Len(xs) |->
        CHOOSE v \in Range(xs) :
            /\ Cardinality({i \in DOMAIN xs : xs[i] < v}) < k
            /\ k <= Cardinality({i \in DOMAIN xs : xs[i] <= v})]

\* Series.quantile(q), linear interpolation, of the ascending non-empty s;
\* the result is multiplied by QScale
Quantile(s, q) ==
    LET n  == Len(s)
        h  == q * (n - 1)
        lo == h \div QScale
        fr == h % QScale
        hi == IF lo + 1 < n THEN lo + 1 ELSE n - 1
    IN  QScale * s[lo + 1] + fr * (s[hi + 1] - s[lo + 1])

\* algos.unique: first occurrences, in order
RECURSIVE Unique(_)
Unique(s) ==
    IF s = <<>> THEN <<>>
    ELSE LET u == Unique(SubSeq(s, 1, Len(s) - 1))
         IN  IF s[Len(s)] \in Range(u) THEN u ELSE Append(u, s[Len(s)])

\* the bin edges qcut hands to _bins_to_cuts; the quantiles of an empty
\* series are all NaN, which unique() collapses to one edge
BinEdges(xs) ==
    IF xs = <<>> THEN <<0>>
    ELSE LET s == SortedVals(xs)
         IN  Unique([j \in DOMAIN Quantiles |-> Quantile(s, Quantiles[j])])

\* a faulty BinId: include_lowest forgotten
BinIdNoLowest(bins, x) == Cardinality({j \in DOMAIN bins : bins[j] < QScale * x})

\* bins.searchsorted(x, side='left'), then ids[x == bins[0]] = 1
BinId(bins, x) ==
    IF QScale * x = bins[1] THEN 1
    ELSE Cardinality({j \in DOMAIN bins : bins[j] < QScale * x})

\* "Bin labels must be one fewer than the number of bin edges"
LabelsMismatch(bins) == Len(GradeLabels) # Len(bins) - 1

\* the label of one value: NaN where ids is 0 or len(bins)
GradeOf(bins, x) ==
    LET id == BinId(bins, x)
    IN  IF id = 0 \/ id = Len(bins) THEN NanGrade ELSE GradeLabels[id]

\* qcut over the column xs: raises ValueError, or the labels row by row
qcut(xs) ==
    LET bins == BinEdges(xs)
    IN  IF LabelsMismatch(bins)
        THEN [raised |-> TRUE, codes |-> <<>>]
        ELSE [raised |-> FALSE,
              codes |-> [i \in DOMAIN xs |-> GradeOf(bins, xs[i])]]

(***************************************************************************)
(* load_and_process_data                                                   *)
(***************************************************************************)
\* pd.read_csv followed by pd.to_numeric on the numeric columns
ReadData(rows) ==
    [i \in DOMAIN rows |->
        [index   |-> i,
         id      |-> read_cell(rows[i].id),
         cltv    |-> to_numeric(read_cell(rows[i].cltv)),
         p3      |-> to_numeric(read_cell(rows[i].p3)),
         p6      |-> to_numeric(read_cell(rows[i].p6)),
         eap     |-> to_numeric(read_cell(rows[i].eap)),
         segment |-> rows[i].segment]]

\* a faulty dropna: no row is dropped
dropnaKeepsAll(df) == df

\* df.dropna(subset=['cltv'])
HasCltv(r) == ~isna(r.cltv)
dropna(df) == SelectSeq(df, HasCltv)

\* the grade column and the three profit columns of one record
Current(r) == r.eap
Projected3(r) == Mul(r.eap, r.p3)
\* a faulty Projected6: the 3-month column used for the 6-month projection
Projected6From3(r) == Mul(r.eap, r.p3)
Projected6(r) == Mul(r.eap, r.p6)

Derive(r, grade) ==
    [index |-> r.index, id |-> r.id, cltv |-> r.cltv, p3 |-> r.p3, p6 |-> r.p6,
     eap |-> r.eap, segment |-> r.segment,
     cltv_grade |-> grade,
     current |-> Current(r),
     proj3 |-> Projected3(r),
     proj6 |-> Projected6(r)]

\* the body of load_and_process_data: a dataset, None with the error banner
\* when the file is missing, or the ValueError qcut raises (not caught)
load_and_process_data(file) ==
    IF ~file.exists
    THEN [status |-> "None", df |-> <<>>]
    ELSE LET kept == dropna(ReadData(file.rows))
             cut  == qcut([i \in DOMAIN kept |-> kept[i].cltv.val])
         IN  IF cut.raised
             THEN [status |-> "ValueError", df |-> <<>>]
             ELSE [status |-> "df",
                   df |-> [i \in DOMAIN kept |-> Derive(kept[i], cut.codes[i])]]

(***************************************************************************)
(* load_ai_strategies and get_rfm_segment_strategy.  A strategy value is   *)
(* [kind, text]: a text, or the NaN read from an empty cell.               *)
(***************************************************************************)
Text(t) == [kind |-> "text", text |-> t]
StrNaN == [kind |-> "nan", text |-> ""]

AbsentStrat == [exists |-> FALSE, hasSegment |-> FALSE, hasStrategy |-> FALSE, rows |-> <<>>]

\* pd.read_csv on a text column: an empty cell is NaN
read_text(t) == IF t = "" THEN StrNaN ELSE Text(t)

\* row.get('segment', 'Unknown'), row.get('AI_Marketing_Strategy', ...)
RowSegment(file, i) == IF file.hasSegment THEN file.rows[i].segment ELSE "Unknown"
RowStrategy(file, i) ==
    IF file.hasStrategy THEN read_text(file.rows[i].strategy)
    ELSE Text("Strategy not available")

\* a faulty Insert: a later row overwrites the entry
InsertOverwrite(dict, segment, strategy) ==
    [k \in DOMAIN dict \cup {segment} |-> IF k = segment THEN strategy ELSE dict[k]]

\* if segment not in strategies_dict: strategies_dict[segment] = strategy
Insert(dict, segment, strategy) ==
    IF segment \in DOMAIN dict THEN dict
    ELSE [k \in DOMAIN dict \cup {segment} |->
            IF k = segment THEN strategy ELSE dict[k]]

EmptyDict == [k \in {} |-> StrNaN]

\* the loop over df.iterrows(), rows 1..n
RECURSIVE StrategiesDict(_, _)
StrategiesDict(file, n) ==
    IF n = 0 THEN EmptyDict
    ELSE Insert(StrategiesDict(file, n - 1), RowSegment(file, n), RowStrategy(file, n))

\* the body of load_ai_strategies: the dict, or {} with a warning
load_ai_strategies(file) ==
    IF ~file.exists
    THEN [status |-> "dict", dict |-> EmptyDict, warned |-> TRUE]
    ELSE [status |-> "dict", dict |-> StrategiesDict(file, Len(file.rows)),
          warned |-> FALSE]

default_strategies ==
    [k \in {"Champions", "Loyal Customers", "Potential Loyalists", "At Risk",
            "Hibernating", "Can't Lose Them", "New Customers", "Promising",
            "Need Attention", "About To Sleep"} |->
       CASE k = "Champions" -> "VIP Retention & Upselling: Maximize lifetime value through exclusive programs, premium rewards, and strategic cross-selling opportunities."
         [] k = "Loyal Customers" -> "Growth & Expansion: Increase purchase frequency and order value through personalized offers, loyalty perks, and bundle deals."
         [] k = "Potential Loyalists" -> "Convert & Nurture: Build customer relationships through education, incentives, and smart product recommendations."
         [] k = "At Risk" -> "Retention & Win-Back: Prevent churn with special offers, feedback collection, and priority service recovery."
         [] k = "Hibernating" -> "Re-Engagement Push: Reactivate inactive customers with special offers, product updates, and fresh engagement strategies."
         [] k = "Can't Lose Them" -> "Emergency Intervention: Prevent loss of high-value customers with executive outreach and custom recovery programs."
         [] k = "New Customers" -> "Onboarding & Integration: Convert into loyal repeat customers through welcome programs and education."
         [] k = "Promising" -> "Accelerate Growth: Fast-track high-potential customers with engagement, early upselling, and loyalty program enrollment."
         [] k = "Need Attention" -> "Focused Support: Engage and retain potentially high-value customers through personalized outreach."
         [] k = "About To Sleep" -> "Wake-Up Campaign: Prevent hibernation with proactive outreach and relevant offers."]

\* bool(value): a text is true unless empty, a float NaN is true
Truthy(v) == v.kind = "nan" \/ v.text # ""

\* default_strategies.get(rfm_segment, f'Develop strategic approach for ...')
DefaultStrategy(rfm_segment) ==
    IF rfm_segment \in DOMAIN default_strategies
    THEN Text(default_strategies[rfm_segment])
    ELSE Text("Develop strategic approach for " \o rfm_segment \o " segment.")

\* a faulty get_rfm_segment_strategy: the built-in defaults looked up first
DefaultsFirst(rfm_segment, ai_strategies) ==
    IF rfm_segment \in DOMAIN default_strategies
    THEN Text(default_strategies[rfm_segment])
    ELSE IF rfm_segment \in DOMAIN ai_strategies /\ Truthy(ai_strategies[rfm_segment])
         THEN ai_strategies[rfm_segment]
         ELSE DefaultStrategy(rfm_segment)

get_rfm_segment_strategy(rfm_segment, ai_strategies) ==
    IF rfm_segment \in DOMAIN ai_strategies /\ Truthy(ai_strategies[rfm_segment])
    THEN ai_strategies[rfm_segment]
    ELSE DefaultStrategy(rfm_segment)

(***************************************************************************)
(* The two @st.cache_data wrappers.  A call that returns is cached (with   *)
(* the st.error / st.warning it emitted, which a cache hit replays); a     *)
(* call that raises caches nothing.                                        *)
(***************************************************************************)
NoLoad == [status |-> "not_called", df |-> <<>>]
NoStrat == [status |-> "not_called", dict |-> EmptyDict, warned |-> FALSE]

CachedLoad ==
    IF dataCache.cached
    THEN [ret |-> dataCache.val, cache |-> dataCache, reads |-> dataReads]
    ELSE LET r == load_and_process_data(dataFile)
         IN  [ret |-> r,
              cache |-> IF r.status = "ValueError" THEN dataCache
                        ELSE [cached |-> TRUE, val |-> r],
              reads |-> dataReads + 1]

CachedStrategies ==
    IF stratCache.cached
    THEN [ret |-> stratCache.val, cache |-> stratCache, reads |-> stratReads]
    ELSE LET r == load_ai_strategies(stratFile)
         IN  [ret |-> r, cache |-> [cached |-> TRUE, val |-> r],
              reads |-> stratReads + 1]

(***************************************************************************)
(* main(): one render pass.                                                *)
(***************************************************************************)
Unset == "unset"
StratSegments == {"Segment A", "Segment B", "Segment C", "Segment D"}

\* sorted([str(x) for x in df['cltv_grade'].unique() if pd.notna(x)]), as a set
all_grades(df) == {df[i].cltv_grade : i \in DOMAIN df} \ {NanGrade}
\* sorted([x for x in df['segment'].unique() if pd.notna(x)]), as a set
rfm_segments(df) == {df[i].segment : i \in DOMAIN df}

\* the segment names of the model, in sorted() order
SegmentOrder == <<"At Risk", "Champions", "Hibernating">>
\* rfm_segments[0], the value of the selectbox until the user picks another
FirstSegment(S) ==
    SegmentOrder[CHOOSE i \in DOMAIN SegmentOrder :
                    /\ SegmentOrder[i] \in S
                    /\ \A j \in 1..(i - 1) : SegmentOrder[j] \notin S]

InGrades(r, selected_grades) == r.cltv_grade \in selected_grades
\* a faulty FilterGrades: the grades are cut again over the selected records
FilterGradesRegrade(df, selected_grades) ==
    LET Keep(r) == InGrades(r, selected_grades)
        sub     == SelectSeq(df, Keep)
        bins    == BinEdges([i \in DOMAIN sub |-> sub[i].cltv.val])
    IN  [i \in DOMAIN sub |->
           [sub[i] EXCEPT !.cltv_grade = GradeOf(bins, sub[i].cltv.val)]]

\* df[df['cltv_grade'].astype(str).isin(selected_grades)]
FilterGrades(df, selected_grades) ==
    LET Keep(r) == InGrades(r, selected_grades) IN SelectSeq(df, Keep)
\* df[df['segment'] == selected_rfm]
FilterSegment(df, selected_rfm) ==
    LET Keep(r) == r.segment = selected_rfm IN SelectSeq(df, Keep)

NoView ==
    [outcome |-> "not_run", shown |-> <<>>, selected_grades |-> {},
     selected_rfm |-> "", filtered_df |-> <<>>, segment_filtered_df |-> <<>>,
     clicked |-> Unset, queries |-> {}, grade_financials |-> <<>>,
     rfm_comparison |-> <<>>]

\* a faulty AfterButtons: a pass without a click puts the default back
AfterButtonsReset(sess, click) ==
    IF click # Unset THEN click ELSE "Segment A"

\* the session field after the tab-3 code: default, then the clicked button
AfterButtons(sess, click) ==
    IF click # Unset THEN click
    ELSE IF sess = Unset THEN "Segment A" ELSE sess

\* the elements main() emits before df is tested
LoaderMessages(load, strat) ==
    (IF load.status = "None" THEN <<"data_error_banner">> ELSE <<>>)
    \o (IF strat.warned THEN <<"strategy_warning">> ELSE <<>>)

Controls == <<"header", "grade_multiselect", "segment_selectbox">>

TabElements(segment_filtered_df) ==
    <<"tabs", "financial_dashboard">>
    \o (IF segment_filtered_df = <<>> THEN <<"segment_empty_warning">>
        ELSE <<"segment_analysis">>)
    \o <<"strategy_engine", "predictive_analytics">>

\* one column of a frame, as a sequence of cells
Col(df, name) == [i \in DOMAIN df |-> df[i][name]]

\* 'count': the cells that are not NaN
CountCells(cells) == Cardinality({i \in DOMAIN cells : ~isna(cells[i])})

\* 'sum': NaN cells are skipped
RECURSIVE SumCells(_)
SumCells(cells) ==
    IF cells = <<>> THEN 0
    ELSE SumCells(SubSeq(cells, 1, Len(cells) - 1))
         + (IF isna(cells[Len(cells)]) THEN 0 ELSE cells[Len(cells)].val)

\* 'mean' followed by .round(2): the mean of the cells that are not NaN, in
\* hundredths, or NaN when there is none
MeanCells(cells) ==
    LET n == CountCells(cells)
    IN  IF n = 0 THEN NaN
        ELSE NumCell((200 * SumCells(cells) + n) \div (2 * n))

\* the records of df with the grade g
OfGrade(df, g) == LET Keep(r) == r.cltv_grade = g IN SelectSeq(df, Keep)
ObservedGrades(df) ==
    LET Seen(g) == \E i \in DOMAIN df : df[i].cltv_grade = g
    IN  SelectSeq(GradeLabels, Seen)

\* 'Customer ID': 'count'
CustomerCount(group) == CountCells(Col(group, "id"))

\* filtered_df.groupby('cltv_grade', observed=True).agg({...}).round(2)
\*   .reset_index(): one row per observed grade, in category order
GradeFinancials(filtered_df) ==
    LET grades == ObservedGrades(filtered_df)
    IN  [k \in DOMAIN grades |->
           LET group == OfGrade(filtered_df, grades[k])
           IN  [cltv_grade     |-> grades[k],
                customer_count |-> CustomerCount(group),
                avg_current    |-> MeanCells(Col(group, "current")),
                total_current  |-> SumCells(Col(group, "current")),
                avg_proj3      |-> MeanCells(Col(group, "proj3")),
                total_proj3    |-> SumCells(Col(group, "proj3")),
                avg_proj6      |-> MeanCells(Col(group, "proj6")),
                total_proj6    |-> SumCells(Col(group, "proj6")),
                avg_cltv       |-> MeanCells(Col(group, "cltv")),
                total_cltv     |-> SumCells(Col(group, "cltv"))]]

\* the records of df with the segment s, and the segments df holds, in the
\* order groupby('segment') lists them
OfSegment(df, s) == LET Keep(r) == r.segment = s IN SelectSeq(df, Keep)
ObservedSegments(df) ==
    LET Seen(s) == \E i \in DOMAIN df : df[i].segment = s
    IN  SelectSeq(SegmentOrder, Seen)

\* ascending=False with na_position='last': a goes before b
Before(a, b) ==
    /\ ~isna(a.avg_proj6)
    /\ isna(b.avg_proj6) \/ a.avg_proj6.val > b.avg_proj6.val

\* sort_values('Avg 6M Proj', ascending=False); rows with equal keys keep
\* the order of the groups
RECURSIVE sort_values(_)
sort_values(rows) ==
    IF rows = <<>> THEN <<>>
    ELSE LET last   == rows[Len(rows)]
             sorted == sort_values(SubSeq(rows, 1, Len(rows) - 1))
             Ahead(r) == ~Before(last, r)
             Behind(r) == Before(last, r)
         IN  SelectSeq(sorted, Ahead) \o <<last>> \o SelectSeq(sorted, Behind)

\* df.groupby('segment', observed=True).agg({...}).round(2).reset_index()
\*   .sort_values('Avg 6M Proj', ascending=False): one row per segment
rfm_comparison(df) ==
    LET segments == ObservedSegments(df)
    IN  sort_values(
          [k \in DOMAIN segments |->
             LET group == OfSegment(df, segments[k])
             IN  [segment    |-> segments[k],
                  customers  |-> CustomerCount(group),
                  avg_cltv   |-> MeanCells(Col(group, "cltv")),
                  avg_profit |-> MeanCells(Col(group, "current")),
                  avg_proj6  |-> MeanCells(Col(group, "proj6"))]])

\* the reductions the four tabs evaluate: tab 1, tab 2 (only for a non-empty
\* segment slice), tab 4
TabQueries(segment_filtered_df) ==
    {"grade_financials"}
    \cup (IF segment_filtered_df = <<>> THEN {}
          ELSE {"segment_metrics", "grade_dist", "cltv_by_grade", "head_10"})
    \cup {"grade_trajectory", "idxmax", "idxmin", "rfm_comparison"}

\* a faulty StopsOnEmpty: the empty subset is not tested
NeverStopsOnEmpty(filtered_df) == FALSE

\* if filtered_df.empty: st.warning(...); return
StopsOnEmpty(filtered_df) == filtered_df = <<>>

NoWidgets == [gradesTouched |-> FALSE, grades |-> {}, rfmTouched |-> FALSE, rfm |-> ""]

\* the value of the multiselect (default: all options) and of the selectbox
SelectedGrades(w, df) == IF w.gradesTouched THEN w.grades ELSE all_grades(df)
SelectedRfm(w, df) == IF w.rfmTouched THEN w.rfm ELSE FirstSegment(rfm_segments(df))

\* what main() shows and computes once df is a dataset
Render(load, strat, w, click) ==
    LET df                  == load.df
        selected_grades     == SelectedGrades(w, df)
        selected_rfm        == SelectedRfm(w, df)
        filtered_df         == FilterGrades(df, selected_grades)
        segment_df          == FilterSegment(df, selected_rfm)
        segment_filtered_df == FilterGrades(segment_df, selected_grades)
        base == [outcome |-> "returned",
                 shown |-> LoaderMessages(load, strat) \o Controls,
                 selected_grades |-> selected_grades,
                 selected_rfm |-> selected_rfm,
                 filtered_df |-> filtered_df,
                 segment_filtered_df |-> segment_filtered_df,
                 clicked |-> Unset,
                 queries |-> {},
                 grade_financials |-> <<>>,
                 rfm_comparison |-> <<>>]
    IN  IF StopsOnEmpty(filtered_df)
        THEN [base EXCEPT !.shown = @ \o <<"no_data_warning">>]
        ELSE [base EXCEPT !.shown = @ \o TabElements(segment_filtered_df),
                          !.clicked = click,
                          !.queries = TabQueries(segment_filtered_df),
                          !.grade_financials = GradeFinancials(filtered_df),
                          !.rfm_comparison = rfm_comparison(df)]

\* if df is None: return
StopsOnNone(load) == load.status = "None"

\* main(), run with the widget state w and the button click of this pass
Main(w, click) ==
    LET L == CachedLoad
    IN  /\ dataCache.cached \/ dataReads < MaxReads
        /\ dataCache' = L.cache
        /\ dataReads' = L.reads
        /\ loadRet' = L.ret
        /\ widgets' = w
        /\ UNCHANGED <<dataFile, stratFile, resolved>>
        /\ IF L.ret.status = "ValueError"
           THEN /\ view' = [NoView EXCEPT !.outcome = "ValueError"]
                /\ UNCHANGED <<stratCache, stratReads, stratRet, session>>
           ELSE LET S == CachedStrategies
                IN  /\ stratCache' = S.cache
                    /\ stratReads' = S.reads
                    /\ stratRet' = S.ret
                    /\ IF StopsOnNone(L.ret)
                       THEN /\ view' = [NoView EXCEPT
                                          !.outcome = "returned",
                                          !.shown = LoaderMessages(L.ret, S.ret)]
                            /\ UNCHANGED session
                       ELSE LET v == Render(L.ret, S.ret, w, click)
                            IN  /\ view' = v
                                /\ session' =
                                     IF "strategy_engine" \in Range(v.shown)
                                     THEN AfterButtons(session, click)
                                     ELSE session

Shows(element) == element \in Range(view.shown)

\* the script runs without a widget event: first load, or a browser refresh
Rerun == Main(widgets, Unset)

\* the user changes the grade multiselect, which reruns the script
ChangeGrades ==
    /\ Shows("grade_multiselect")
    /\ \E G \in SUBSET all_grades(dataCache.val.df) :
          Main([widgets EXCEPT !.gradesTouched = TRUE, !.grades = G], Unset)

\* the user picks a segment in the selectbox
ChangeSegment ==
    /\ Shows("segment_selectbox")
    /\ \E sgm \in rfm_segments(dataCache.val.df) :
          Main([widgets EXCEPT !.rfmTouched = TRUE, !.rfm = sgm], Unset)

\* the user clicks one of the four buttons of the strategy tab
ClickButton ==
    /\ Shows("strategy_engine")
    /\ \E b \in StratSegments : Main(widgets, b)

(***************************************************************************)
(* Direct calls of the three functions.                                    *)
(***************************************************************************)
CallLoad ==
    LET L == CachedLoad
    IN  /\ dataCache.cached \/ dataReads < MaxReads
        /\ dataCache' = L.cache
        /\ dataReads' = L.reads
        /\ loadRet' = L.ret
        /\ UNCHANGED <<dataFile, stratFile, stratCache, stratReads, stratRet,
                       resolved, widgets, session, view>>

CallStrategies ==
    LET S == CachedStrategies
    IN  /\ stratCache' = S.cache
        /\ stratReads' = S.reads
        /\ stratRet' = S.ret
        /\ UNCHANGED <<dataFile, stratFile, dataCache, dataReads, loadRet,
                       resolved, widgets, session, view>>

NoResolve == [called |-> FALSE, segment |-> "", mapping |-> EmptyDict, result |-> StrNaN]

\* the segment names and mappings get_rfm_segment_strategy is called with
ResolveSegments == {"Champions", "At Risk", "UnknownSeg"}
DirectValues == {Text("X"), Text(""), StrNaN}
DirectMappings == UNION {[K -> DirectValues] : K \in SUBSET {"Champions"}}

Resolve ==
    \E sgm \in ResolveSegments :
    \E m \in DirectMappings \cup {stratCache.val.dict} :
        /\ resolved' = [called |-> TRUE, segment |-> sgm, mapping |-> m,
                        result |-> get_rfm_segment_strategy(sgm, m)]
        /\ UNCHANGED <<dataFile, stratFile, dataCache, stratCache, dataReads,
                       stratReads, loadRet, stratRet, widgets, session, view>>

(***************************************************************************)
(* Input files and the three specifications.                               *)
(***************************************************************************)
DataRow(id, cltv, eap, p3, p6, segment) ==
    [id |-> id, cltv |-> cltv, eap |-> eap, p3 |-> p3, p6 |-> p6, segment |-> segment]

CltvCells == {NumCell(v) : v \in 1..MaxCltv} \cup {EmptyCell, TextCell}

\* rows whose cltv cell varies
CltvRows ==
    {DataRow(NumCell(1), c, NumCell(3), NumCell(1), NumCell(2), "Champions") :
        c \in CltvCells}

\* rows whose profit columns vary
ProfitRows ==
    {DataRow(NumCell(1), c, e, a, b, "Champions") :
        c \in {NumCell(1), NumCell(2)},
        e \in {NumCell(-2), NumCell(3), EmptyCell},
        a \in {NumCell(2), TextCell},
        b \in {NumCell(3), EmptyCell}}

\* rows of the data files rendered by main(): cltv and segment vary, and
\* one row has an empty Customer ID
AppRows ==
    {DataRow(NumCell(1), NumCell(c), NumCell(3), NumCell(1), NumCell(2), g) :
        c \in 1..MaxAppCltv, g \in {"Champions", "At Risk"}}
    \cup {DataRow(EmptyCell, NumCell(MaxAppCltv), NumCell(3), NumCell(1), NumCell(2), "At Risk")}

StratRow(segment, strategy) == [segment |-> segment, strategy |-> strategy]

\* the rows of a strategy file; a column the file lacks holds nothing
StratRows(hs, ha) ==
    {StratRow(g, t) : g \in IF hs THEN {"Champions", "UnknownSeg"} ELSE {""},
                      t \in IF ha THEN {"X", "Y", ""} ELSE {""}}

StratFileOf(hs, ha, rows) ==
    [exists |-> TRUE, hasSegment |-> hs, hasStrategy |-> ha, rows |-> rows]

\* the strategy file next to the data files main() renders, when present
AppStratFile ==
    StratFileOf(TRUE, TRUE, <<StratRow("Champions", "X"), StratRow("At Risk", "")>>)

Idle(data, strat) ==
    /\ dataFile = data
    /\ stratFile = strat
    /\ dataCache = [cached |-> FALSE, val |-> NoLoad]
    /\ stratCache = [cached |-> FALSE, val |-> NoStrat]
    /\ dataReads = 0
    /\ stratReads = 0
    /\ loadRet = NoLoad
    /\ stratRet = NoStrat
    /\ resolved = NoResolve
    /\ widgets = NoWidgets
    /\ session = Unset
    /\ view = NoView

\* the loader alone: no data file, or a file of up to MaxRows rows whose
\* cltv varies, or of up to MaxProfitRows rows whose profit columns vary
InitLoad ==
    \/ Idle(AbsentData, AbsentStrat)
    \/ \E k \in 0..MaxRows : \E rows \in [1..k -> CltvRows] :
          Idle(DataFileOf(rows), AbsentStrat)
    \/ \E k \in 0..MaxProfitRows : \E rows \in [1..k -> ProfitRows] :
          Idle(DataFileOf(rows), AbsentStrat)
NextLoad == CallLoad
SpecLoad == InitLoad /\ [][NextLoad]_vars

\* the strategy loader and the resolver: no strategy file, or a file of up
\* to MaxStratRows rows, with or without each of its two columns
InitStrat ==
    \/ Idle(AbsentData, AbsentStrat)
    \/ \E hs \in BOOLEAN, ha \in BOOLEAN :
       \E k \in 0..MaxStratRows : \E rows \in [1..k -> StratRows(hs, ha)] :
          Idle(AbsentData, StratFileOf(hs, ha, rows))
NextStrat == CallStrategies \/ Resolve
SpecStrat == InitStrat /\ [][NextStrat]_vars

\* the dashboard: render passes of main() over a data file that is missing
\* or has up to MaxAppRows rows, with and without the strategy file
Init ==
    \E strat \in {AbsentStrat, AppStratFile} :
       \/ Idle(AbsentData, strat)
       \/ \E k \in 0..MaxAppRows : \E rows \in [1..k -> AppRows] :
             Idle(DataFileOf(rows), strat)
Next == Rerun \/ ChangeGrades \/ ChangeSegment \/ ClickButton
Spec == Init /\ [][Next]_vars

(***************************************************************************)
(* Properties of load_and_process_data (SpecLoad).                         *)
(***************************************************************************)
Returned == loadRet.status = "df"
\* the rows of the input file whose cltv cell is a number
Defined == {j \in DOMAIN dataFile.rows : dataFile.rows[j].cltv.kind = "num"}

\* C1: the returned dataset holds no record with a missing cltv, and holds
\* every input record whose cltv is a number, once, with that value.
C1_MissingCltvDropped ==
    Returned =>
        /\ \A i \in DOMAIN loadRet.df :
              /\ loadRet.df[i].cltv.kind = "num"
              /\ loadRet.df[i].index \in Defined
        /\ \A j \in Defined :
              \E i \in DOMAIN loadRet.df :
                 /\ loadRet.df[i].index = j
                 /\ loadRet.df[i].cltv.val = dataFile.rows[j].cltv.val
                 /\ \A k \in DOMAIN loadRet.df : loadRet.df[k].index = j => k = i
        /\ Len(loadRet.df) = Cardinality(Defined)

\* C1 witness: a file of three rows (number, empty, number) gives 2 records
C1_Witness ==
    /\ Returned
    /\ Len(dataFile.rows) = 3
    /\ dataFile.rows[1].cltv.kind = "num"
    /\ dataFile.rows[2].cltv.kind = "empty"
    /\ dataFile.rows[3].cltv.kind = "num"
    /\ Len(loadRet.df) = 2

GradesIn(df) == {df[i].cltv_grade : i \in DOMAIN df}
FourLabels == {"D (At Risk)", "C (Re-Engagement)", "B (High Potential)", "A (Champions)"}

\* C2: every record of the returned dataset carries one of the four grade
\* labels (none is left ungraded), so the grade groups, at most 4, cover it.
C2_GradesPartition ==
    Returned =>
        /\ \A i \in DOMAIN loadRet.df : loadRet.df[i].cltv_grade \in FourLabels
        /\ Cardinality(GradesIn(loadRet.df)) <= 4
        /\ UNION {{i \in DOMAIN loadRet.df : loadRet.df[i].cltv_grade = g} :
                     g \in FourLabels} = DOMAIN loadRet.df

\* C2 witness: a returned dataset in which all four grades occur
C2_Witness == Returned /\ GradesIn(loadRet.df) = FourLabels

GradeRank(g) ==
    CASE g = "D (At Risk)" -> 1
      [] g = "C (Re-Engagement)" -> 2
      [] g = "B (High Potential)" -> 3
      [] g = "A (Champions)" -> 4
      [] OTHER -> 0

\* C3: a record of a lower grade (D < C < B < A) never has a larger cltv
\* than a record of a higher grade, and equal cltv means equal grade.
C3_GradesOrdered ==
    Returned =>
        \A i, k \in DOMAIN loadRet.df :
           /\ GradeRank(loadRet.df[i].cltv_grade) < GradeRank(loadRet.df[k].cltv_grade)
                 => loadRet.df[i].cltv.val <= loadRet.df[k].cltv.val
           /\ loadRet.df[i].cltv.val = loadRet.df[k].cltv.val
                 => loadRet.df[i].cltv_grade = loadRet.df[k].cltv_grade

\* C3 witness: four grades, and two records of equal cltv
C3_Witness ==
    /\ Returned
    /\ GradesIn(loadRet.df) = FourLabels
    /\ \E i, k \in DOMAIN loadRet.df :
          i # k /\ loadRet.df[i].cltv.val = loadRet.df[k].cltv.val

\* the retained cltv values, and whether two of their five breakpoints coincide
Retained == [i \in 1..Cardinality(Defined) |->
               dataFile.rows[CHOOSE j \in Defined :
                                Cardinality({m \in Defined : m < j}) = i - 1].cltv.val]
Breakpoints == [j \in DOMAIN Quantiles |-> Quantile(SortedVals(Retained), Quantiles[j])]
Coincide ==
    /\ Retained # <<>>
    /\ \E a, b \in DOMAIN Quantiles : a # b /\ Breakpoints[a] = Breakpoints[b]

\* C4: when breakpoints coincide the call does not raise: it returns a
\* dataset in which fewer than 4 grades occur.
C4_TiesMergeGrades ==
    (loadRet.status # "not_called" /\ dataFile.exists /\ Coincide) =>
        /\ Returned
        /\ Cardinality(GradesIn(loadRet.df)) < 4

\* the number a numeric input cell is read as, or NaN
Input(c) == IF c.kind = "num" THEN NumCell(c.val) ELSE NaN
Product(a, b) ==
    IF a.kind = "num" /\ b.kind = "num" THEN NumCell(a.val * b.val) ELSE NaN

\* C5: the three profit fields of a record are computed from the inputs of
\* its own row: eap, eap * expected_purc_3_month, eap * expected_purc_6_month.
C5_ProfitFields ==
    Returned =>
        \A i \in DOMAIN loadRet.df :
           LET r   == loadRet.df[i]
               row == dataFile.rows[r.index]
           IN  /\ r.current = Input(row.eap)
               /\ r.proj3 = Product(row.eap, row.p3)
               /\ r.proj6 = Product(row.eap, row.p6)

\* C5 witness: two records with different inputs, one with a negative profit
C5_Witness ==
    /\ Returned
    /\ \E i, k \in DOMAIN loadRet.df :
          /\ loadRet.df[i].current = NumCell(-2)
          /\ loadRet.df[i].proj3 = NumCell(-4)
          /\ loadRet.df[i].proj6 = NumCell(-6)
          /\ loadRet.df[k].current = NumCell(3)
          /\ loadRet.df[k].proj3 = NumCell(6)
          /\ loadRet.df[k].proj6 = NumCell(9)

(***************************************************************************)
(* Properties of get_rfm_segment_strategy and load_ai_strategies           *)
(* (SpecStrat).                                                            *)
(***************************************************************************)
\* the entry of the call's mapping for the call's segment is a non-empty text
NonEmptyEntry ==
    /\ resolved.segment \in DOMAIN resolved.mapping
    /\ resolved.mapping[resolved.segment].kind = "text"
    /\ resolved.mapping[resolved.segment].text # ""

\* C6: a segment that is a key of the mapping with a non-empty entry gets
\* that entry, also when the segment has a built-in default string.
C6_MappingEntryReturned ==
    (resolved.called /\ NonEmptyEntry) =>
        resolved.result = resolved.mapping[resolved.segment]

\* C6 witness: resolve("Champions", {"Champions": "X"}) returned "X"
C6_Witness ==
    /\ resolved.called
    /\ resolved.segment = "Champions"
    /\ DOMAIN resolved.mapping = {"Champions"}
    /\ resolved.mapping["Champions"] = Text("X")
    /\ resolved.result = Text("X")

\* the entry is absent, an empty text, or the missing value of an empty cell
AbsentOrEmptyEntry ==
    \/ resolved.segment \notin DOMAIN resolved.mapping
    \/ resolved.mapping[resolved.segment].kind = "nan"
    \/ resolved.mapping[resolved.segment].text = ""

FallbackText ==
    CASE resolved.segment = "Champions" ->
           "VIP Retention & Upselling: Maximize lifetime value through exclusive programs, premium rewards, and strategic cross-selling opportunities."
      [] resolved.segment = "At Risk" ->
           "Retention & Win-Back: Prevent churn with special offers, feedback collection, and priority service recovery."
      [] resolved.segment = "UnknownSeg" ->
           "Develop strategic approach for UnknownSeg segment."

\* C7: without a non-empty entry the result is the default string of a known
\* segment, or the generated fallback; the result is always a non-empty text.
C7_FallbackToDefault ==
    resolved.called =>
        /\ AbsentOrEmptyEntry =>
              /\ resolved.result.kind = "text"
              /\ resolved.result.text = FallbackText
        /\ resolved.result.kind = "text"
        /\ resolved.result.text # ""

\* the part of C7 the code meets: an absent key or an empty text
FallbackWhenAbsentOrEmptyText ==
    (resolved.called /\
       (\/ resolved.segment \notin DOMAIN resolved.mapping
        \/ resolved.mapping[resolved.segment] = Text(""))) =>
        resolved.result = Text(FallbackText)

\* the file has both columns, as section 6 of the specification requires
BothColumns == stratFile.exists /\ stratFile.hasSegment /\ stratFile.hasStrategy
LabelsOf(file) == {file.rows[i].segment : i \in DOMAIN file.rows}
FirstRowOf(file, label) ==
    CHOOSE i \in DOMAIN file.rows :
        /\ file.rows[i].segment = label
        /\ \A j \in 1..(i - 1) : file.rows[j].segment # label
CellValue(t) == IF t = "" THEN StrNaN ELSE Text(t)

\* C8: the mapping has one entry per segment label of the table, holding the
\* strategy of the first row with that label.
C8_FirstOccurrenceWins ==
    (stratRet.status = "dict" /\ BothColumns) =>
        /\ DOMAIN stratRet.dict = LabelsOf(stratFile)
        /\ \A label \in LabelsOf(stratFile) :
              stratRet.dict[label] =
                 CellValue(stratFile.rows[FirstRowOf(stratFile, label)].strategy)

\* C8 witness: a label on two rows with different strategies, the first kept
C8_Witness ==
    /\ stratRet.status = "dict"
    /\ BothColumns
    /\ \E i, j \in DOMAIN stratFile.rows :
          /\ i < j
          /\ stratFile.rows[i].segment = stratFile.rows[j].segment
          /\ stratFile.rows[i].strategy = "X"
          /\ stratFile.rows[j].strategy = "Y"
          /\ \A k \in 1..(i - 1) : stratFile.rows[k].segment # stratFile.rows[i].segment
          /\ stratRet.dict[stratFile.rows[i].segment] = Text("X")

(***************************************************************************)
(* Properties of main() (Spec).                                            *)
(***************************************************************************)
Rendered == view.outcome # "not_run"

\* C9: with the data file absent a render pass does not raise, shows the
\* data-file error banner and nothing else, and filters nothing.
C9_MissingDataBannerOnly ==
    (Rendered /\ ~dataFile.exists) =>
        /\ view.outcome = "returned"
        /\ view.shown = <<"data_error_banner">>
        /\ view.filtered_df = <<>>
        /\ view.segment_filtered_df = <<>>

\* the part of C9 the code meets: no raise, the banner first, no control,
\* tab or filtering; the only other element is the strategy-file warning
MissingDataStopsPass ==
    (Rendered /\ ~dataFile.exists) =>
        /\ view.outcome = "returned"
        /\ view.shown = <<"data_error_banner">>
                        \o (IF stratFile.exists THEN <<>> ELSE <<"strategy_warning">>)
        /\ view.filtered_df = <<>>
        /\ view.segment_filtered_df = <<>>

\* C10: with the strategy file absent load_ai_strategies returns the empty
\* mapping, and a render pass with the data file present (holding at least
\* one record with a cltv) reaches the filters and the four tabs.
C10_MissingStrategiesProceeds ==
    /\ (stratRet.status # "not_called" /\ ~stratFile.exists) =>
          (stratRet.status = "dict" /\ stratRet.dict = EmptyDict)
    /\ (Rendered /\ dataFile.exists /\ Defined # {} /\ ~stratFile.exists) =>
          /\ Shows("grade_multiselect")
          /\ Shows("segment_selectbox")
          /\ Shows("financial_dashboard")
          /\ Shows("strategy_engine")
          /\ Shows("predictive_analytics")
          /\ Shows("segment_analysis") \/ Shows("segment_empty_warning")

\* the part of C10 the code meets: the empty mapping, and a pass whose
\* dataset loads reaches the filters, and the tabs when a record is selected
MissingStrategiesNotFatal ==
    /\ (stratRet.status # "not_called" /\ ~stratFile.exists) =>
          (stratRet.status = "dict" /\ stratRet.dict = EmptyDict)
    /\ (Rendered /\ ~stratFile.exists /\ loadRet.status = "df") =>
          /\ view.outcome = "returned"
          /\ Shows("strategy_warning")
          /\ Shows("grade_multiselect")
          /\ Shows("segment_selectbox")
          /\ view.filtered_df # <<>> =>
                (Shows("tabs") /\ Shows("financial_dashboard") /\
                 Shows("strategy_engine") /\ Shows("predictive_analytics"))

TabShown ==
    \/ Shows("tabs") \/ Shows("financial_dashboard") \/ Shows("segment_analysis")
    \/ Shows("segment_empty_warning") \/ Shows("strategy_engine")
    \/ Shows("predictive_analytics")

\* C11: a pass whose grade selection matches no record shows the no-data
\* warning and returns without raising; it shows no tab and evaluates no
\* aggregate or extremum query, so idxmax and idxmin only ever run on a
\* non-empty filtered subset.
C11_EmptyFilterStopsPass ==
    /\ (Rendered /\ loadRet.status = "df" /\ view.filtered_df = <<>>) =>
          /\ view.outcome = "returned"
          /\ Shows("no_data_warning")
          /\ ~TabShown
          /\ view.queries = {}
    /\ (Rendered /\ loadRet.status = "df" /\ view.selected_grades = {}) =>
          view.filtered_df = <<>>
    /\ ({"idxmax", "idxmin"} \cap view.queries # {}) => view.filtered_df # <<>>

\* C11 witness: the user has emptied the grade selection of a loaded dataset
C11_Witness ==
    /\ Rendered
    /\ loadRet.status = "df"
    /\ widgets.gradesTouched
    /\ view.selected_grades = {}
    /\ Shows("no_data_warning")

RECURSIVE TotalCustomers(_)
TotalCustomers(rows) ==
    IF rows = <<>> THEN 0
    ELSE TotalCustomers(SubSeq(rows, 1, Len(rows) - 1)) + rows[Len(rows)].customer_count

\* C12: the 'Customer Count' values of the group-by-grade aggregate of the
\* Financial Dashboard tab sum to the number of records of the filtered subset.
C12_CountsSumToSubset ==
    Shows("financial_dashboard") =>
        TotalCustomers(view.grade_financials) = Len(view.filtered_df)

\* what the code computes: the records of the subset that have a Customer ID
CountsSumToIdentified ==
    Shows("financial_dashboard") =>
        /\ TotalCustomers(view.grade_financials) =
              Cardinality({i \in DOMAIN view.filtered_df :
                              view.filtered_df[i].id.kind = "num"})
        /\ {view.grade_financials[k].cltv_grade : k \in DOMAIN view.grade_financials}
              = GradesIn(view.filtered_df)

\* the dataset of this run, as load_and_process_data built it from the file
Loaded == dataCache.cached /\ dataCache.val.status = "df"
SelectedFrom(sub, df) == \A i \in DOMAIN sub : \E j \in DOMAIN df : sub[i] = df[j]

\* every record a pass works on is a record of the loaded dataset, grade
\* included, and the loaded dataset is the one cut over the whole file
GradesAsLoaded ==
    (Rendered /\ Loaded) =>
        /\ dataCache.val = load_and_process_data(dataFile)
        /\ SelectedFrom(view.filtered_df, dataCache.val.df)
        /\ SelectedFrom(view.segment_filtered_df, dataCache.val.df)
        /\ \A i \in DOMAIN view.filtered_df :
              view.filtered_df[i].cltv_grade \in view.selected_grades

\* C13: over any sequence of render passes the grade of each record stays
\* the one assigned at load time over the full dataset (filtering selects
\* records, it does not cut again), and no pass changes the loaded dataset.
C13_GradesImmutable ==
    /\ []GradesAsLoaded
    /\ [][Loaded => dataCache' = dataCache]_vars

\* C13 witness: a pass that kept some records of the dataset and not others
C13_Witness ==
    /\ Rendered
    /\ Loaded
    /\ widgets.gradesTouched
    /\ view.filtered_df # <<>>
    /\ Len(view.filtered_df) < Len(dataCache.val.df)

\* C14: the per-segment comparison (count, mean cltv, mean Current Profit,
\* mean 6-month projection, descending by mean 6-month projection) is the
\* one computed over the records left after filtering by the selected
\* grades, so a deselected grade's records are out of the counts and means.
C14_ComparisonOverFiltered ==
    Shows("predictive_analytics") =>
        Range(view.rfm_comparison) = Range(rfm_comparison(view.filtered_df))

\* what the pass shows instead: the comparison over the whole loaded
\* dataset, whatever grades are selected, in descending order of the mean
\* 6-month projection
ComparisonOverDataset ==
    Shows("predictive_analytics") =>
        /\ Range(view.rfm_comparison) = Range(rfm_comparison(dataCache.val.df))
        /\ {r.segment : r \in Range(view.rfm_comparison)}
              = rfm_segments(dataCache.val.df)
        /\ \A i, j \in DOMAIN view.rfm_comparison :
              i < j => ~Before(view.rfm_comparison[j], view.rfm_comparison[i])

\* C15: over any sequence of render passes each of the two CSV files is
\* read at most once; every call after the first returns the cached result
\* of the first call, a cached missing-file result included, and leaves the
\* file alone.
C15_EachFileReadOnce ==
    /\ dataReads <= 1
    /\ stratReads <= 1
    /\ dataReads = 1 => dataCache.cached /\ loadRet = dataCache.val
    /\ stratReads = 1 => stratCache.cached /\ stratRet = stratCache.val

\* what does hold: the strategy file is read once; the data file is read
\* once whenever its first call returned (a dataset or None), and again only
\* after a call that raised, which leaves nothing in the cache
ReadOnceUnlessRaised ==
    /\ stratReads <= 1
    /\ stratReads = 1 => stratCache.cached /\ stratRet = stratCache.val
    /\ dataCache.cached => dataReads = 1 /\ loadRet = dataCache.val
    /\ dataReads > 1 =>
          /\ ~dataCache.cached
          /\ load_and_process_data(dataFile).status = "ValueError"
    /\ (dataReads = 1 /\ ~dataFile.exists) =>
          dataCache.cached /\ dataCache.val.status = "None"

\* in a pass that reaches the strategy tab the session field names a preset,
\* and it names the button clicked in that pass, if one was
SessionNamesPreset ==
    Shows("strategy_engine") =>
        /\ session \in StratSegments
        /\ view.clicked # Unset => session = view.clicked

\* one render pass: a click sets the field to the clicked button, a pass
\* without a click leaves a set field alone and sets an unset one to
\* 'Segment A' (or leaves it unset when the tab is not reached)
SessionStep ==
    /\ view'.clicked # Unset => session' = view'.clicked
    /\ (view'.clicked = Unset /\ session # Unset) => session' = session
    /\ (view'.clicked = Unset /\ session = Unset) =>
          /\ session' \in {Unset, "Segment A"}
          /\ "strategy_engine" \in Range(view'.shown) => session' = "Segment A"

\* C16: in every pass that reaches the AI Strategy Engine tab the session
\* field selected_strat_segment is one of 'Segment A'..'Segment D'; it is
\* 'Segment A' until the first click, the last button clicked afterwards,
\* and unchanged by passes in which no button is clicked.
C16_SessionSegment ==
    /\ []SessionNamesPreset
    /\ [][SessionStep]_vars

\* C16 witness: a pass without a click that kept an earlier click on the
\* third button
C16_Witness ==
    /\ Shows("strategy_engine")
    /\ view.clicked = Unset
    /\ session = "Segment C"

====
